---- MODULE Spec2Model ----
(***************************************************************************)
(* A model of the gnome-liquide shell extension.                           *)
(*                                                                         *)
(*   shader.js  FRAGMENT_SHADER: sdf, tap and main, evaluated for one      *)
(*              fragment, in decimal fixed point (six places);             *)
(*   effect.js  LiquidGlassEffect: its fields, the dirty flag, the         *)
(*              uniform uploads of vfunc_paint_target and the setters;     *)
(*   panel.js   PanelGlass: enable, disable, _setup, _teardown, _rebuild   *)
(*              and the signal handlers enable() connects.                 *)
(*                                                                         *)
(* A real number x is the integer round(x * Unit).  Every product, quotient *)
(* and square root is rounded to the nearest representable value, as the   *)
(* GPU's float operations are; intermediate values stay below 2^31.        *)
(***************************************************************************)
EXTENDS Integers, Sequences, FiniteSets, TLC

\* ------------------------------------------------------------------------
\* Fixed-point arithmetic
\* ------------------------------------------------------------------------

Base == 10 * 10 * 10
Unit == Base * Base

Abs(x) == IF x < 0 THEN -x ELSE x
Min(a, b) == IF a < b THEN a ELSE b
Max(a, b) == IF a > b THEN a ELSE b
Sign(x) == IF x < 0 THEN -1 ELSE 1

\* round(a * b / Unit) for a, b >= 0, by limbs of Base
MulU(a, b) ==
  LET a1 == a \div Base
      a0 == a % Base
      b1 == b \div Base
      b0 == b % Base
      m  == a1 * b0 + a0 * b1
  IN  a1 * b1 + (m \div Base)
        + (((m % Base) * Base + a0 * b0 + (Unit \div 2)) \div Unit)

Mul(a, b) == Sign(a) * Sign(b) * MulU(Abs(a), Abs(b))

\* the next n decimal digits of r / b (0 <= r < b), then the rounding digit
RECURSIVE DivDigits(_, _, _, _)
DivDigits(r, b, n, acc) ==
  IF n = 0
    THEN IF 2 * r >= b THEN acc + 1 ELSE acc
    ELSE DivDigits((r * 10) % b, b, n - 1, acc * 10 + ((r * 10) \div b))

\* round(a * Unit / b) for a >= 0, b > 0
DivU(a, b) == (a \div b) * Unit + DivDigits(a % b, b, 6, 0)

Div(a, b) == Sign(a) * Sign(b) * DivU(Abs(a), Abs(b))

\* r * r as the pair <<hi, lo>> with r * r = hi * Unit + lo, 0 <= lo < Unit
SqWide(r) ==
  LET r1 == r \div Base
      r0 == r % Base
      m  == 2 * r1 * r0
      lo == (m % Base) * Base + r0 * r0
  IN  <<r1 * r1 + (m \div Base) + (lo \div Unit), lo % Unit>>

\* r * r <= a * Unit
SqLeq(r, a) == LET s == SqWide(r) IN s[1] < a \/ (s[1] = a /\ s[2] = 0)

\* the largest r in lo..hi with r * r <= a * Unit (lo satisfies it)
RECURSIVE SqrtSearch(_, _, _)
SqrtSearch(a, lo, hi) ==
  IF lo >= hi THEN lo
  ELSE LET mid == (lo + hi + 1) \div 2
       IN  IF SqLeq(mid, a) THEN SqrtSearch(a, mid, hi)
                            ELSE SqrtSearch(a, lo, mid - 1)

\* r or r + 1, whichever is nearer to sqrt(a * Unit), for the r of SqrtSearch:
\* r + 1 when r * r + r + 1 <= a * Unit, i.e. (r + 1/2)^2 < a * Unit
SqrtRound(a, r) ==
  LET s  == SqWide(r)
      lo == s[2] + r + 1
      hi == s[1] + (lo \div Unit)
  IN  IF hi < a \/ (hi = a /\ lo % Unit = 0) THEN r + 1 ELSE r

\* round(sqrt(a * Unit)) for a >= 0: sqrt of the real a / Unit; the argument
\* is evaluated once, before the search
Sqrt(a) ==
  CHOOSE s \in {SqrtRound(v, SqrtSearch(v, 0, 46340 * Base)) : v \in {a}} : TRUE

\* ------------------------------------------------------------------------
\* GLSL built-ins used by the shader (shader.js, FRAGMENT_SHADER)
\* ------------------------------------------------------------------------

\* The ways a GLSL implementation evaluates clamp(x, lo, hi).  They agree when
\* lo <= hi; GLSL leaves the result undefined when lo > hi.
ClampModes == {"minmax", "maxmin", "med3"}

Clamp(x, lo, hi, mode) ==
  CASE mode = "minmax" -> Min(Max(x, lo), hi)
    [] mode = "maxmin" -> Max(Min(x, hi), lo)
    [] OTHER -> Max(Min(x, lo), Min(Max(x, lo), hi))

Clamp2(v, lo, hi, mode) ==
  [x |-> Clamp(v.x, lo.x, hi.x, mode), y |-> Clamp(v.y, lo.y, hi.y, mode)]

Length2(v) == Sqrt(Mul(v.x, v.x) + Mul(v.y, v.y))

Dot3(a, b) == Mul(a.x, b.x) + Mul(a.y, b.y) + Mul(a.z, b.z)

\* v / |v| for a v whose components are below 200 in size: the vector is
\* first divided by its largest component, so that the squares stay in range
Normalize3(v) ==
  LET m == Max(Abs(v.x), Max(Abs(v.y), Abs(v.z)))
      w == IF m > Unit
             THEN [x |-> Div(v.x, m), y |-> Div(v.y, m), z |-> Div(v.z, m)]
             ELSE v
      len == Sqrt(Mul(w.x, w.x) + Mul(w.y, w.y) + Mul(w.z, w.z))
  IN  [x |-> Div(w.x, len), y |-> Div(w.y, len), z |-> Div(w.z, len)]

\* smoothstep(e0, e1, x): t = clamp((x - e0) / (e1 - e0), 0, 1); t*t*(3 - 2t)
Smoothstep(e0, e1, x) ==
  LET t == Clamp(Div(x - e0, e1 - e0), 0, Unit, "minmax")
  IN  Mul(Mul(t, t), 3 * Unit - 2 * t)

\* mix(x, y, a) = x * (1 - a) + y * a
Mix(x, y, a) == Mul(x, Unit - a) + Mul(y, a)

\* refract(I, N, eta): the zero vector when k < 0 (total internal reflection)
Refract(I, N, eta) ==
  LET dNI == Dot3(N, I)
      k   == Unit - Mul(Mul(eta, eta), Unit - Mul(dNI, dNI))
      c   == Mul(eta, dNI) + Sqrt(k)
  IN  IF k < 0
        THEN [x |-> 0, y |-> 0, z |-> 0]
        ELSE [x |-> Mul(eta, I.x) - Mul(c, N.x),
              y |-> Mul(eta, I.y) - Mul(c, N.y),
              z |-> Mul(eta, I.z) - Mul(c, N.z)]

\* texture2D(tex, uv).rgb: the wallpaper texture, sampled clamp-to-edge.
\* "grey" is a uniform mid grey, "ramp" has a different gradient in each
\* channel, so that two reads at different coordinates differ in colour.
Backgrounds == {"grey", "ramp"}

Texture2D(tex, uv) ==
  LET cu == Clamp(uv.x, 0, Unit, "minmax")
      cv == Clamp(uv.y, 0, Unit, "minmax")
  IN  IF tex = "grey"
        THEN [r |-> Unit \div 2, g |-> Unit \div 2, b |-> Unit \div 2]
        ELSE [r |-> cu, g |-> cv, b |-> Unit - cu]

\* ------------------------------------------------------------------------
\* shader.js: sdf, tap, main
\* ------------------------------------------------------------------------

\* const int N = 12 and const float INV_N = 1.0 / 12.0
N_TAPS == 12
INV_N == 83333

\* cos(i * GA) and sin(i * GA) for i = 0..11, GA = 2.39996323
SpiralCos == <<1000000, -737369, 87426, 608439, -984713, 843755,
               -259604, -460907, 939321, -924346, 423846, 299284>>
SpiralSin == <<0, 675490, -996171, 793601, -174182, -536728,
               965715, -887448, 343039, 381556, -905734, 954164>>

\* the thresholds of tap and main: blur < 0.5, u_ca > 0.001, dot(r, r) < 0.001
BLUR_MIN == 500000
CA_MIN == 1000
TIR_MIN == 1000

\* float sdf(vec2 p, vec2 h, float r)
sdf(p, h, r0) ==
  LET r  == Min(r0, Min(h.x, h.y))
      d  == [x |-> Abs(p.x) - h.x + r, y |-> Abs(p.y) - h.y + r]
      dp == [x |-> Max(d.x, 0), y |-> Max(d.y, 0)]
  IN  Min(Max(d.x, d.y), 0) + Length2(dp) - r

\* SpiralCoord without its clamp: texture2D(tex, uv + o)
SpiralCoordFree(uv, invRes, blur, i, mode) ==
  LET r == Mul(Sqrt(Mul(i * Unit + (Unit \div 2), INV_N)), blur)
  IN  [x |-> uv.x + Mul(Mul(SpiralCos[i + 1], r), invRes.x),
       y |-> uv.y + Mul(Mul(SpiralSin[i + 1], r), invRes.y)]

\* the coordinate of the i-th spiral read of tap (i = 0..11) around uv
SpiralCoord(uv, invRes, blur, i, mode) ==
  LET fi == i * Unit
      r  == Mul(Sqrt(Mul(fi + (Unit \div 2), INV_N)), blur)
      o  == [x |-> Mul(Mul(SpiralCos[i + 1], r), invRes.x),
             y |-> Mul(Mul(SpiralSin[i + 1], r), invRes.y)]
      lo == invRes
      hi == [x |-> Unit - invRes.x, y |-> Unit - invRes.y]
  IN  Clamp2([x |-> uv.x + o.x, y |-> uv.y + o.y], lo, hi, mode)

RECURSIVE SumRgb(_, _, _)
SumRgb(tex, coords, i) ==
  IF i > Len(coords) THEN [r |-> 0, g |-> 0, b |-> 0]
  ELSE LET c == Texture2D(tex, coords[i])
           s == SumRgb(tex, coords, i + 1)
       IN  [r |-> c.r + s.r, g |-> c.g + s.g, b |-> c.b + s.b]

\* the spiral loop of tap: one clamped read for each i in 0..N-1
SpiralReads(uv, invRes, blur, mode) ==
  [i \in 1..N_TAPS |-> SpiralCoord(uv, invRes, blur, i - 1, mode)]

\* vec3 tap(vec2 uv, vec2 invRes, float blur): the colour returned, with the
\* coordinate it was called with (arg) and the texture reads it issued
tap(tex, uv0, invRes, blur, mode) ==
  LET lo == invRes
      hi == [x |-> Unit - invRes.x, y |-> Unit - invRes.y]
      uv == Clamp2(uv0, lo, hi, mode)
  IN  IF blur < BLUR_MIN
        THEN [arg |-> uv0, reads |-> <<uv>>, spiral |-> FALSE,
              rgb |-> Texture2D(tex, uv)]
        ELSE LET reads == SpiralReads(uv, invRes, blur, mode)
                 s     == SumRgb(tex, reads, 1)
             IN  [arg |-> uv0, reads |-> reads, spiral |-> TRUE,
                  rgb |-> [r |-> Mul(s.r, INV_N), g |-> Mul(s.g, INV_N),
                           b |-> Mul(s.b, INV_N)]]

\* #define HALF_VEC vec3(-0.17045, 0.25568, 0.95156)
HALF_VEC == [x |-> -170450, y |-> 255680, z |-> 951560]

\* vec3 I = vec3(0.0, 0.0, -1.0)
Incident == [x |-> 0, y |-> 0, z |-> -Unit]

\* main is evaluated in the order of its statements.  Each step below takes
\* the record c of the values computed so far and adds the values of its
\* statements; c.u are the uniforms, c.uv is v_uv, c.tex the texture.

\* Frame with p taken at the pixel's corner: p = v_uv * res - hs + 0.5
FrameCorner(c) ==
  LET res == [x |-> c.u.width, y |-> c.u.height]
      hs  == [x |-> Mul(res.x, Unit \div 2), y |-> Mul(res.y, Unit \div 2)]
  IN  c @@ [res |-> res,
            invRes |-> [x |-> Div(Unit, res.x), y |-> Div(Unit, res.y)],
            hs |-> hs,
            p |-> [x |-> Mul(c.uv.x, res.x) - hs.x + (Unit \div 2),
                   y |-> Mul(c.uv.y, res.y) - hs.y + (Unit \div 2)],
            cr |-> Min(c.u.u_cr, Min(hs.x, hs.y))]

\* res, invRes, p, hs, cr
Frame(c) ==
  LET res == [x |-> c.u.width, y |-> c.u.height]
      hs  == [x |-> Mul(res.x, Unit \div 2), y |-> Mul(res.y, Unit \div 2)]
  IN  c @@ [res |-> res,
            invRes |-> [x |-> Div(Unit, res.x), y |-> Div(Unit, res.y)],
            hs |-> hs,
            p |-> [x |-> Mul(c.uv.x, res.x) - hs.x,
                   y |-> Mul(c.uv.y, res.y) - hs.y],
            cr |-> Min(c.u.u_cr, Min(hs.x, hs.y))]

\* float d = sdf(p, hs, cr)
Distance(c) == c @@ [d |-> sdf(c.p, c.hs, c.cr)]

\* Edge with a falloff that ends at d = 1.5: 1.0 - smoothstep(-1.5, 1.5, d)
EdgeWide(c) ==
  c @@ [edge |-> Unit - Smoothstep(-(3 * Unit) \div 2, (3 * Unit) \div 2, c.d)]

\* float edge = 1.0 - smoothstep(-1.5, 0.5, d)
Edge(c) == c @@ [edge |-> Unit - Smoothstep(-(3 * Unit) \div 2, Unit \div 2, c.d)]

\* q, ax, ay
DomeAxes(c) ==
  LET q == [x |-> Min(Div(Abs(c.p.x), c.hs.x), Unit),
            y |-> Min(Div(Abs(c.p.y), c.hs.y), Unit)]
  IN  c @@ [ax |-> Max(Unit - Mul(q.x, q.x), 0),
            ay |-> Max(Unit - Mul(q.y, q.y), 0)]

\* t, om, om2, om4, base, sqrtBase
DomeBase(c) ==
  LET om   == Unit - Mul(c.ax, c.ay)
      om2  == Mul(om, om)
      base == Max(Unit - Mul(om2, om2), 1)
  IN  c @@ [om3 |-> Mul(om2, om), sqrtBase |-> Sqrt(base)]

\* ht = sqrt(sqrtBase)
DomeHeight(c) == c @@ [ht |-> Sqrt(c.sqrtBase)]

\* hpD, hp, invHs2, hGrad
DomeGradient(c) ==
  LET hp == Div(c.om3, Max(Mul(c.sqrtBase, c.ht), 80000))
      invHs2 == [x |-> Mul(Mul(4 * Unit, c.invRes.x), c.invRes.x),
                 y |-> Mul(Mul(4 * Unit, c.invRes.y), c.invRes.y)]
  IN  c @@ [hGrad |-> [x |-> Mul(hp, Mul(Mul(Mul(-2 * Unit, c.p.x), invHs2.x), c.ay)),
                       y |-> Mul(hp, Mul(Mul(Mul(-2 * Unit, c.p.y), invHs2.y), c.ax))]]

\* vec3 N = normalize(vec3(-hGrad * 50.0, 1.0)).  Where -hGrad * 50 would
\* exceed 200 the same direction is normalised as vec3(-hGrad, 1.0 / 50.0).
DomeNormal(c) ==
  c @@ [N |-> IF Max(Abs(c.hGrad.x), Abs(c.hGrad.y)) <= 4 * Unit
                THEN Normalize3([x |-> -50 * c.hGrad.x, y |-> -50 * c.hGrad.y,
                                 z |-> Unit])
                ELSE Normalize3([x |-> -c.hGrad.x, y |-> -c.hGrad.y,
                                 z |-> Unit \div 50])]

\* vec2 scaleInv = length(res) * 0.1 * u_dist * invRes
Scale(c) ==
  LET k == Mul(Mul(Length2(c.res), Unit \div 10), c.u.u_dist)
  IN  c @@ [scaleInv |-> [x |-> Mul(k, c.invRes.x), y |-> Mul(k, c.invRes.y)]]

\* vec3 rG = refract(I, N, 1.0 / u_ior): rG0 is what refract returned
GreenRefract(c) == c @@ [rG0 |-> Refract(Incident, c.N, Div(Unit, c.u.u_ior))]

\* GreenFallback without the test: rG stays what refract returned
GreenNoFallback(c) == c @@ [rG |-> c.rG0]

\* if (dot(rG, rG) < 0.001) rG = I
GreenFallback(c) ==
  c @@ [rG |-> IF Dot3(c.rG0, c.rG0) < TIR_MIN THEN Incident ELSE c.rG0]

\* the texture coordinate v_uv + r.xy * scaleInv of a ray r
Along(c, r) ==
  [x |-> c.uv.x + Mul(r.x, c.scaleInv.x), y |-> c.uv.y + Mul(r.y, c.scaleInv.y)]

\* vec2 uvG = v_uv + rG.xy * scaleInv
GreenCoord(c) == c @@ [uvG |-> Along(c, c.rG)]

\* rR and rB as refract returned them (inside if (u_ca > 0.001))
ChromaRefract(c) ==
  c @@ [rR0 |-> Refract(Incident, c.N, Div(Unit, c.u.u_ior + 12 * c.u.u_ca)),
        rB0 |-> Refract(Incident, c.N,
                        Div(Unit, Max(c.u.u_ior - 12 * c.u.u_ca, 1001000)))]

\* if (dot(rR, rR) < 0.001) rR = rG;  if (dot(rB, rB) < 0.001) rB = rG
ChromaFallback(c) ==
  c @@ [rR |-> IF Dot3(c.rR0, c.rR0) < TIR_MIN THEN c.rG ELSE c.rR0,
        rB |-> IF Dot3(c.rB0, c.rB0) < TIR_MIN THEN c.rG ELSE c.rB0]

\* col = vec3(tap(..rR..).r, tap(uvG, ..).g, tap(..rB..).b)
ChromaTaps(c) ==
  c @@ [taps |-> <<tap(c.tex, Along(c, c.rR), c.invRes, c.u.u_blur, c.mode),
                   tap(c.tex, c.uvG, c.invRes, c.u.u_blur, c.mode),
                   tap(c.tex, Along(c, c.rB), c.invRes, c.u.u_blur, c.mode)>>]

\* col = tap(uvG, invRes, u_blur)
SingleTap(c) ==
  c @@ [taps |-> <<tap(c.tex, c.uvG, c.invRes, c.u.u_blur, c.mode)>>]

\* the colour taken from the taps: one channel of each, or all of the one;
\* sampled keeps it as col was before the lighting was added
Gather(c) ==
  LET col == IF c.ca
               THEN [r |-> c.taps[1].rgb.r, g |-> c.taps[2].rgb.g,
                     b |-> c.taps[3].rgb.b]
               ELSE c.taps[1].rgb
  IN  c @@ [col |-> col, sampled |-> col]

\* Sample with the test u_ca > 0.0
SampleAnyCa(c) ==
  IF c.u.u_ca > 0
    THEN Gather(ChromaTaps(ChromaFallback(ChromaRefract(c @@ [ca |-> TRUE]))))
    ELSE Gather(SingleTap(c @@ [ca |-> FALSE]))

\* if (u_ca > 0.001) { ... } else { ... }
Sample(c) ==
  IF c.u.u_ca > CA_MIN
    THEN Gather(ChromaTaps(ChromaFallback(ChromaRefract(c @@ [ca |-> TRUE]))))
    ELSE Gather(SingleTap(c @@ [ca |-> FALSE]))

\* Fresnel without the strength: fres = fBase * fBase * fBase
FresnelFixed(c) ==
  LET fBase == Unit - Max(c.N.z, 0)
  IN  c @@ [fres |-> Mul(Mul(fBase, fBase), fBase)]

\* float fres = fBase * fBase * fBase * u_fres
Fresnel(c) ==
  LET fBase == Unit - Max(c.N.z, 0)
  IN  c @@ [fres |-> Mul(Mul(Mul(fBase, fBase), fBase), c.u.u_fres)]

\* sb^16 in s[1] and sb^64 in s[2], from sb = max(dot(N, HALF_VEC), 0)
SpecularPowers(sb) ==
  LET s4 == Mul(Mul(sb, sb), Mul(sb, sb))
      s16 == Mul(Mul(s4, s4), Mul(s4, s4))
  IN  <<s16, Mul(Mul(s16, s16), Mul(s16, s16))>>

\* float spec = s64 * s16 * 0.45
Specular(c) ==
  LET s == SpecularPowers(Max(Dot3(c.N, HALF_VEC), 0))
  IN  c @@ [spec |-> Mul(Mul(s[2], s[1]), 450000)]

\* col += fres * vec3(0.85, 0.9, 1.0);  col += spec * vec3(1.0, 0.98, 0.95)
Highlights(c) ==
  [c EXCEPT !.col = [r |-> c.col.r + Mul(c.fres, 850000) + Mul(c.spec, Unit),
                     g |-> c.col.g + Mul(c.fres, 900000) + Mul(c.spec, 980000),
                     b |-> c.col.b + Mul(c.fres, Unit) + Mul(c.spec, 950000)]]

\* col = mix(col, col * vec3(u_tint_r, u_tint_g, u_tint_b), u_tint_a)
Tint(c) ==
  [c EXCEPT !.col = [r |-> Mix(c.col.r, Mul(c.col.r, c.u.u_tint_r), c.u.u_tint_a),
                     g |-> Mix(c.col.g, Mul(c.col.g, c.u.u_tint_g), c.u.u_tint_a),
                     b |-> Mix(c.col.b, Mul(c.col.b, c.u.u_tint_b), c.u.u_tint_a)]]

\* col += (1.0 - ht) * 0.012
Brighten(c) ==
  LET lift == Mul(Unit - c.ht, 12000)
  IN  [c EXCEPT !.col = [r |-> c.col.r + lift, g |-> c.col.g + lift,
                         b |-> c.col.b + lift]]

\* vec3 bg = texture2D(tex, v_uv).rgb
Background(c) == c @@ [bg |-> Texture2D(c.tex, c.uv)]

\* cogl_color_out = vec4(mix(bg, col, edge), 1.0)
Composite(c) ==
  c @@ [out |-> [r |-> Mix(c.bg.r, c.col.r, c.edge),
                 g |-> Mix(c.bg.g, c.col.g, c.edge),
                 b |-> Mix(c.bg.b, c.col.b, c.edge)]]

\* lines 60-97 of main: the mask and the dome normal
Surface(c) ==
  DomeNormal(DomeGradient(DomeHeight(DomeBase(DomeAxes(
    Edge(Distance(Frame(c))))))))

\* lines 99-121 of main: refraction and sampling
Refraction(c) == Sample(GreenCoord(GreenFallback(GreenRefract(Scale(c)))))

\* lines 123-146 of main: lighting, tint and composite
Shade(c) ==
  Composite(Background(Brighten(Tint(Highlights(Specular(Fresnel(c)))))))

\* void main(): the evaluation of one fragment at texture coordinate v_uv
\* under the uniforms u
main(u, v_uv, tex0, mode0) ==
  Shade(Refraction(Surface([u |-> u, uv |-> v_uv, tex |-> tex0, mode |-> mode0])))

\* ------------------------------------------------------------------------
\* State
\* ------------------------------------------------------------------------

VARIABLES
  eff,        \* the LiquidGlassEffect under study (in the panel: the one _setup
              \* created last): its fields _ior, _ca, _dist, _cr, _fres, _blur,
              \* _tint, _dirty, _lastW, _lastH
  uniforms,   \* the uniform values set on the effect's shader so far
  actor,      \* the actor the effect is on: attached, and its width and height
  frames,     \* the frames painted so far, newest first (the last two are kept)
  queued,     \* queue_repaint() has been called since the last paint
  calls,      \* number of setter calls made directly on the effect
  tex,        \* the wallpaper texture
  mode,       \* the clamp evaluation of the GLSL implementation
  settings,   \* the GSettings values, by key
  glass,      \* the PanelGlass object: _bgManager, _bgGroup, _bgWidget, _effect
              \* (an instance number, 0 for null), _signalIds, _settingSignalIds
  shell,      \* the shell around it: the groups that are children of the panel's
              \* parent, the live BackgroundManagers, the style class, the
              \* primary monitor, the connected handlers, the clipped widgets
  life,       \* "new" (constructed), "enabled" or "disabled"
  lastEvent   \* the last signal emitted: its name, how many handlers ran, and
              \* whether one of them threw

effVars == <<eff, uniforms, actor, frames, queued, calls>>
glVars == <<tex, mode>>
panelVars == <<settings, glass, shell, life, lastEvent>>
vars == <<eff, uniforms, actor, frames, queued, calls, tex, mode,
          settings, glass, shell, life, lastEvent>>

\* ------------------------------------------------------------------------
\* effect.js: parseColor, LiquidGlassEffect
\* ------------------------------------------------------------------------

\* Subtract epsilon to ensure GJS passes as float: parseFloat(value - 1e-6)
EPSILON == 1

HexChars == <<"0", "1", "2", "3", "4", "5", "6", "7",
              "8", "9", "a", "b", "c", "d", "e", "f">>

HexDigit(c) == (CHOOSE i \in 1..16 : HexChars[i] = c) - 1

\* hex.replace('#', ''): the string without its first '#'
StripHash(hex) ==
  IF \E i \in 1..Len(hex) : hex[i] = "#"
    THEN LET i == CHOOSE j \in 1..Len(hex) :
                    hex[j] = "#" /\ \A k \in 1..(j - 1) : hex[k] # "#"
         IN  SubSeq(hex, 1, i - 1) \o SubSeq(hex, i + 1, Len(hex))
    ELSE hex

\* parseInt(hex.substring(i, i + 2), 16) / 255
HexByte(hex, i) == Div(16 * HexDigit(hex[i + 1]) + HexDigit(hex[i + 2]), 255)

\* function parseColor(hex): [r, g, b, a] in 0-1
parseColor(hex0) ==
  LET hex == StripHash(hex0)
  IN  <<HexByte(hex, 0), HexByte(hex, 2), HexByte(hex, 4),
        IF Len(hex) >= 8 THEN HexByte(hex, 6) ELSE Unit>>

\* params.key ?? dflt
OrDefault(params, key, dflt) ==
  IF key \in DOMAIN params THEN params[key] ELSE dflt

\* LiquidGlassEffect._init(params = {})
LiquidGlassEffect_init(params) ==
  [_ior   |-> OrDefault(params, "ior", 1450000),
   _ca    |-> OrDefault(params, "ca", 8000),
   _dist  |-> OrDefault(params, "dist", 800000),
   _cr    |-> OrDefault(params, "cr", 12 * Unit),
   _fres  |-> OrDefault(params, "fres", 250000),
   _blur  |-> OrDefault(params, "blur", 2 * Unit),
   _tint  |-> OrDefault(params, "tint", <<Unit, Unit, Unit, 800000>>),
   _dirty |-> TRUE,
   _lastW |-> -1,
   _lastH |-> -1]

\* a shader no uniform has been set on: GL reads an unset uniform as 0
NoUniforms ==
  [width |-> 0, height |-> 0, u_ior |-> 0, u_ca |-> 0, u_dist |-> 0,
   u_cr |-> 0, u_fres |-> 0, u_blur |-> 0,
   u_tint_r |-> 0, u_tint_g |-> 0, u_tint_b |-> 0, u_tint_a |-> 0]

\* the two set_uniform_value calls for 'width' and 'height'
UploadSize(u, w, h) ==
  [u EXCEPT !.width = w * Unit - EPSILON, !.height = h * Unit - EPSILON]

\* the ten set_uniform_value calls made when _dirty
UploadParams(u, e) ==
  [u EXCEPT !.u_ior = e._ior - EPSILON,
            !.u_ca = e._ca - EPSILON,
            !.u_dist = e._dist - EPSILON,
            !.u_cr = e._cr - EPSILON,
            !.u_fres = e._fres - EPSILON,
            !.u_blur = e._blur - EPSILON,
            !.u_tint_r = e._tint[1] - EPSILON,
            !.u_tint_g = e._tint[2] - EPSILON,
            !.u_tint_b = e._tint[3] - EPSILON,
            !.u_tint_a = e._tint[4] - EPSILON]

\* the field values a frame is painted from
Params(e) ==
  [ior |-> e._ior, ca |-> e._ca, dist |-> e._dist, cr |-> e._cr,
   fres |-> e._fres, blur |-> e._blur, tint |-> e._tint]

\* super.vfunc_paint_target(node, paintContext): the shader runs with the
\* uniforms u; the fragment at v_uv is the one observed
PaintFrame(u, e, v_uv) ==
  [u |-> u, params |-> Params(e), m |-> main(u, v_uv, tex, mode)]

\* vfunc_paint_target(node, paintContext)
vfunc_paint_target(v_uv) ==
  /\ queued' = FALSE
  /\ UNCHANGED <<actor, calls, tex, mode, panelVars>>
  /\ IF ~actor.attached \/ actor.w <= 0 \/ actor.h <= 0
       THEN UNCHANGED <<eff, uniforms, frames>>
       ELSE LET resized == actor.w # eff._lastW \/ actor.h # eff._lastH
                u1 == IF resized THEN UploadSize(uniforms, actor.w, actor.h)
                                 ELSE uniforms
                u2 == IF eff._dirty THEN UploadParams(u1, eff) ELSE u1
            IN  /\ uniforms' = u2
                /\ eff' = [eff EXCEPT !._lastW = actor.w, !._lastH = actor.h,
                                      !._dirty = FALSE]
                /\ frames' = <<PaintFrame(u2, eff, v_uv)>> \o SubSeq(frames, 1, Min(Len(frames), 1))

\* SetField without this._dirty = true
SetFieldClean(e, field, v) == [e EXCEPT ![field] = v]

\* set ior(v), set ca(v), set dist(v), set cr(v), set fres(v), set blur(v)
SetField(e, field, v) ==
  IF v = e[field] THEN e ELSE [e EXCEPT ![field] = v, !._dirty = TRUE]

\* set tintColor(hex)
SetTint(e, hex) == [e EXCEPT !._tint = parseColor(hex), !._dirty = TRUE]

\* a call of one of the six numeric setters on the effect
Setter(field, v) ==
  /\ eff' = SetField(eff, field, v)
  /\ queued' = (queued \/ v # eff[field])
  /\ calls' = calls + 1
  /\ UNCHANGED <<uniforms, actor, frames, tex, mode, panelVars>>

\* a call of the tintColor setter on the effect
TintSetter(hex) ==
  /\ eff' = SetTint(eff, hex)
  /\ queued' = TRUE
  /\ calls' = calls + 1
  /\ UNCHANGED <<uniforms, actor, frames, tex, mode, panelVars>>

\* tint-color strings, as sequences of characters: the schema's translucent
\* white, opaque black, and a dark red without alpha digits
TintWhite == <<"#", "f", "f", "f", "f", "f", "f", "c", "c">>
TintBlack == <<"#", "0", "0", "0", "0", "0", "0", "f", "f">>
TintDark == <<"#", "0", "1", "0", "0", "0", "0">>

\* ------------------------------------------------------------------------
\* panel.js: PanelGlass
\* ------------------------------------------------------------------------

\* the most glass instances (group, widget, manager, effect) alive at once
MaxInstances == 3

InstanceIds == 1..MaxInstances

\* the primary monitors: 0 is Main.layoutManager.primaryMonitor === null
Monitors == 0..2

SettingKeys ==
  {"apply-to-panel", "ior", "chromatic-aberration", "distortion",
   "corner-radius", "fresnel", "blur", "tint-color"}

\* the key of each numeric handler of enable() and the field its setter holds
FieldOf ==
  [k \in {"ior", "chromatic-aberration", "distortion", "corner-radius",
          "fresnel", "blur"} |->
     CASE k = "ior" -> "_ior"
       [] k = "chromatic-aberration" -> "_ca"
       [] k = "distortion" -> "_dist"
       [] k = "corner-radius" -> "_cr"
       [] k = "fresnel" -> "_fres"
       [] OTHER -> "_blur"]

Signals ==
  {"monitors-changed", "notify::width", "notify::height", "notify::size",
   "notify::position"}

\* number of entries of the array ids that equal x
Count(ids, x) == Cardinality({i \in DOMAIN ids : ids[i] = x})

\* Main.panel.get_parent(): the panel stays in Main.layoutManager.panelBox for
\* the life of the shell
PanelHasParent == TRUE

\* constructor(settings); _settingSignalIds is undefined until the first
\* _connectSetting, which `?? []` and `!this._settingSignalIds` read as empty
PanelGlass_new ==
  [_bgManager |-> 0, _bgGroup |-> 0, _bgWidget |-> 0, _effect |-> 0,
   _signalIds |-> <<>>, _settingSignalIds |-> <<>>]

\* The methods of PanelGlass act on a world W: the object (W.glass), the shell
\* (W.shell), the settings (W.settings), the effect (W.eff, W.queued);
\* W.threw records a TypeError, W.full that no instance number was left.
World ==
  [glass |-> glass, shell |-> shell, settings |-> settings, eff |-> eff,
   queued |-> queued, threw |-> FALSE, full |-> FALSE]

\* the instance numbers of objects that still exist
InUse(W) ==
  W.shell.children \cup {m[1] : m \in W.shell.managers}
    \cup ({W.glass._bgManager, W.glass._bgGroup, W.glass._bgWidget,
           W.glass._effect} \ {0})

\* _parseTint(hex)
_parseTint(hex0) ==
  LET hex == StripHash(hex0)
  IN  <<HexByte(hex, 0), HexByte(hex, 2), HexByte(hex, 4),
        IF Len(hex) >= 8 THEN HexByte(hex, 6) ELSE Unit>>

\* _connectSignal(obj, signal, callback)
_connectSignal(W, signal) ==
  [W EXCEPT !.shell.handlers[signal] = @ + 1,
            !.glass._signalIds = Append(@, signal)]

\* _connectSetting(key, callback)
_connectSetting(W, key) ==
  [W EXCEPT !.shell.settingHandlers[key] = @ + 1,
            !.glass._settingSignalIds = Append(@, key)]

\* _updateClip(); the panel and its parent are allocated and positioned, so
\* the size and isFinite guards pass
_updateClip(W) ==
  IF W.glass._bgWidget = 0 \/ ~PanelHasParent \/ W.shell.monitor = 0
    THEN W
    ELSE [W EXCEPT !.shell.clip = @ \cup {W.glass._bgWidget}]

\* the objects _setup creates, all under the instance number n
Install(W, n) ==
  [W EXCEPT !.glass._bgGroup = n, !.glass._bgWidget = n,
            !.glass._bgManager = n, !.glass._effect = n,
            !.shell.managers = @ \cup {<<n, W.shell.monitor>>},
            !.shell.children = @ \cup {n},
            !.eff = LiquidGlassEffect_init(
                      [ior  |-> W.settings["ior"],
                       ca   |-> W.settings["chromatic-aberration"],
                       dist |-> W.settings["distortion"],
                       cr   |-> W.settings["corner-radius"],
                       fres |-> W.settings["fresnel"],
                       blur |-> W.settings["blur"],
                       tint |-> _parseTint(W.settings["tint-color"])])]

\* the four notify connections of _setup and the style class
Track(W) ==
  [_connectSignal(_connectSignal(_connectSignal(_connectSignal(
     _updateClip(W), "notify::width"), "notify::height"), "notify::size"),
     "notify::position")
   EXCEPT !.shell.styled = TRUE]

\* _setup()
_setup(W) ==
  IF ~PanelHasParent \/ W.shell.monitor = 0 THEN W
  ELSE IF InstanceIds \subseteq InUse(W) THEN [W EXCEPT !.full = TRUE]
  ELSE Track(Install(W, CHOOSE n \in InstanceIds :
                          /\ n \notin InUse(W)
                          /\ \A k \in InstanceIds : k < n => k \in InUse(W)))

\* _teardown(): the disconnects and the style class, ...
Disconnect(W) ==
  [W EXCEPT !.shell.handlers =
              [sig \in Signals |-> @[sig] - Count(W.glass._signalIds, sig)],
            !.glass._signalIds = <<>>,
            !.shell.styled = FALSE]

\* ... this._bgManager.destroy() ...
DestroyManager(W) ==
  IF W.glass._bgManager # 0
    THEN [W EXCEPT !.shell.managers = {m \in @ : m[1] # W.glass._bgManager},
                   !.glass._bgManager = 0]
    ELSE W

\* ... and the removal of the group from the panel's parent
RemoveGroup(W) ==
  IF W.glass._bgGroup # 0 /\ PanelHasParent
    THEN [W EXCEPT !.shell.children = @ \ {W.glass._bgGroup},
                   !.shell.clip = @ \ {W.glass._bgGroup}]
    ELSE W

_teardown(W) ==
  [RemoveGroup(DestroyManager(Disconnect(W)))
   EXCEPT !.glass._bgGroup = 0, !.glass._bgWidget = 0, !.glass._effect = 0]

\* _rebuild()
_rebuild(W) ==
  IF W.settings["apply-to-panel"] THEN _setup(_teardown(W)) ELSE _teardown(W)

\* the keys enable() connects, in its order
HandlerKeys ==
  <<"ior", "chromatic-aberration", "distortion", "corner-radius", "fresnel",
    "blur", "tint-color", "apply-to-panel">>

RECURSIVE ConnectSettings(_, _)
ConnectSettings(W, i) ==
  IF i > Len(HandlerKeys) THEN W
  ELSE ConnectSettings(_connectSetting(W, HandlerKeys[i]), i + 1)

\* the callback enable() connects to changed::key
Handler(W, key) ==
  IF key = "apply-to-panel"
    THEN IF W.settings[key] THEN _setup(W) ELSE _teardown(W)
  ELSE IF W.glass._effect = 0
    THEN [W EXCEPT !.threw = TRUE]
  ELSE IF key = "tint-color"
    THEN [W EXCEPT !.eff = SetTint(@, W.settings[key]), !.queued = TRUE]
  ELSE [W EXCEPT !.eff = SetField(@, FieldOf[key], W.settings[key]),
                 !.queued = @ \/ W.settings[key] # W.eff[FieldOf[key]]]

\* the world a method leaves becomes the next state
Commit(W) ==
  /\ ~W.full
  /\ glass' = W.glass
  /\ shell' = W.shell
  /\ eff' = W.eff
  /\ queued' = W.queued

NoEvent == [signal |-> "none", key |-> "", handlers |-> 0, threw |-> FALSE]

\* new PanelGlass(settings), as GnomeLiquideExtension.enable() makes one
Construct ==
  /\ life = "disabled"
  /\ life' = "new"
  /\ glass' = PanelGlass_new
  /\ lastEvent' = NoEvent
  /\ UNCHANGED <<settings, shell, effVars, glVars>>

\* enable()
enable ==
  /\ life = "new"
  /\ life' = "enabled"
  /\ lastEvent' = NoEvent
  /\ Commit(IF ~settings["apply-to-panel"]
              THEN World
              ELSE ConnectSettings(
                     _connectSignal(_setup(World), "monitors-changed"), 1))
  /\ UNCHANGED <<settings, uniforms, actor, frames, calls, glVars>>

\* disable()
disable ==
  /\ life = "enabled"
  /\ life' = "disabled"
  /\ lastEvent' = NoEvent
  /\ LET W == _teardown(World)
     IN  Commit([W EXCEPT !.shell.settingHandlers =
                            [k \in SettingKeys |->
                               @[k] - Count(W.glass._settingSignalIds, k)],
                          !.glass._settingSignalIds = <<>>])
  /\ UNCHANGED <<settings, uniforms, actor, frames, calls, glVars>>

\* GSettings emits changed::key: the key was written or reset (v may be the
\* value it had) and the connected callback, if any, runs
Changed(key, v) ==
  LET W == [World EXCEPT !.settings[key] = v]
      n == shell.settingHandlers[key]
      after == IF n > 0 THEN Handler(W, key) ELSE W
  IN  /\ settings' = W.settings
      /\ lastEvent' = [signal |-> "changed", key |-> key, handlers |-> n,
                       threw |-> after.threw]
      /\ Commit(IF after.threw THEN W ELSE after)
      /\ UNCHANGED <<life, uniforms, actor, frames, calls, glVars>>

\* Main.layoutManager emits monitors-changed with m the primary monitor now;
\* a callback that _teardown disconnects during the emission is not run again
MonitorsChanged(m) ==
  LET W == [World EXCEPT !.shell.monitor = m]
      n == shell.handlers["monitors-changed"]
  IN  /\ lastEvent' = [signal |-> "monitors-changed", key |-> "",
                       handlers |-> n, threw |-> FALSE]
      /\ Commit(IF n > 0 THEN _rebuild(W) ELSE W)
      /\ UNCHANGED <<settings, life, uniforms, actor, frames, calls, glVars>>

\* the panel or its parent emits one of the notify signals of _setup
Notify(signal) ==
  LET n == shell.handlers[signal]
  IN  /\ lastEvent' = [signal |-> signal, key |-> "", handlers |-> n,
                       threw |-> FALSE]
      /\ Commit(IF n > 0 THEN _updateClip(World) ELSE World)
      /\ UNCHANGED <<settings, life, uniforms, actor, frames, calls, glVars>>

\* the values the preferences window writes, by key
SettingValues ==
  [k \in SettingKeys |->
     CASE k = "apply-to-panel" -> BOOLEAN
       [] k = "ior" -> {1450000, 1500000}
       [] k = "chromatic-aberration" -> {8000}
       [] k = "distortion" -> {800000}
       [] k = "corner-radius" -> {12 * Unit}
       [] k = "fresnel" -> {250000}
       [] k = "blur" -> {2 * Unit}
       [] OTHER -> {TintWhite, TintBlack}]

\* the schema defaults
DefaultSettings ==
  [k \in SettingKeys |->
     CASE k = "apply-to-panel" -> TRUE
       [] k = "ior" -> 1450000
       [] k = "chromatic-aberration" -> 8000
       [] k = "distortion" -> 800000
       [] k = "corner-radius" -> 12 * Unit
       [] k = "fresnel" -> 250000
       [] k = "blur" -> 2 * Unit
       [] OTHER -> TintWhite]

\* a shell with one monitor in which no PanelGlass has acted yet
NoGlass ==
  [children |-> {}, managers |-> {}, styled |-> FALSE, monitor |-> 1,
   handlers |-> [sig \in Signals |-> 0],
   settingHandlers |-> [k \in SettingKeys |-> 0], clip |-> {}]

\* the panel as the shader and the effect on its own see it: not enabled
PanelIdle ==
  /\ settings = DefaultSettings
  /\ glass = PanelGlass_new
  /\ shell = NoGlass
  /\ life = "new"
  /\ lastEvent = NoEvent

InitPanel ==
  /\ settings \in {[DefaultSettings EXCEPT !["apply-to-panel"] = b] : b \in BOOLEAN}
  /\ glass = PanelGlass_new
  /\ shell = NoGlass
  /\ life = "new"
  /\ lastEvent = NoEvent
  /\ eff = LiquidGlassEffect_init(<<>>)
  /\ uniforms = NoUniforms
  /\ actor = [attached |-> FALSE, w |-> 0, h |-> 0]
  /\ frames = <<>>
  /\ queued = FALSE
  /\ calls = 0
  /\ tex = "grey"
  /\ mode = "minmax"

NextPanel ==
  \/ Construct
  \/ enable
  \/ disable
  \/ \E key \in SettingKeys : \E v \in SettingValues[key] : Changed(key, v)
  \/ \E m \in Monitors : MonitorsChanged(m)
  \/ \E signal \in Signals \ {"monitors-changed"} : Notify(signal)

SpecPanel == InitPanel /\ [][NextPanel]_vars

\* ------------------------------------------------------------------------
\* The shader as a function of the effect's parameters
\* ------------------------------------------------------------------------

\* parameter values within the ranges of the preferences window
IorValues == {Unit, 1450000}
CaValues == {0, 1000, 8000}
DistValues == {800000, 3 * Unit}
CrValues == {0, 12 * Unit}
FresValues == {0, Unit}
BlurValues == {0, 500000, 10 * Unit}

ShaderParams ==
  [ior : IorValues, ca : CaValues, dist : DistValues, cr : CrValues,
   fres : FresValues, blur : BlurValues, tint : {parseColor(TintWhite)}]

\* actor sizes in pixels that pass the size check of vfunc_paint_target
ShaderSizes == {<<1, 1>>, <<2, 6>>, <<8, 6>>, <<32, 20>>}

\* the texture coordinates of the observed fragment
Probes ==
  {[x |-> a, y |-> b] : a \in {0, Unit \div 4, Unit \div 2, Unit},
                        b \in {0, Unit \div 2, Unit}}

\* the clamp evaluations that can differ for an actor of this size
ModesFor(size) ==
  IF size[1] < 2 \/ size[2] < 2 THEN ClampModes ELSE {"minmax"}

InitShader ==
  /\ \E params \in ShaderParams : eff = LiquidGlassEffect_init(params)
  /\ \E size \in ShaderSizes :
       /\ actor = [attached |-> TRUE, w |-> size[1], h |-> size[2]]
       /\ mode \in ModesFor(size)
  /\ uniforms = NoUniforms
  /\ frames = <<>>
  /\ queued = FALSE
  /\ calls = 0
  /\ tex \in Backgrounds
  /\ PanelIdle

\* the first frame of a new effect
FirstPaint == \E v_uv \in Probes : frames = <<>> /\ vfunc_paint_target(v_uv)

NextShader == FirstPaint

SpecShader == InitShader /\ [][NextShader]_vars

\* ------------------------------------------------------------------------
\* The effect on its own: setter calls, paints, changes of its actor
\* ------------------------------------------------------------------------

\* the most setter calls and the most paints of a run
MaxCalls == 2
MaxFrames == 2

\* the values the numeric setters are called with, by field
SetterValues ==
  [_ior |-> {Unit}, _ca |-> {0}, _dist |-> {3 * Unit}, _cr |-> {0},
   _fres |-> {0, Unit}, _blur |-> {500000}]

EffectTints == {TintWhite, TintBlack, TintDark}

\* the fragment observed: a silhouette point, the middle of the left side
EffectProbes == {[x |-> 0, y |-> Unit \div 2]}

\* the actor: allocated, not yet allocated, or the effect not on an actor
EffectActors ==
  {[attached |-> TRUE, w |-> 8, h |-> 6], [attached |-> TRUE, w |-> 0, h |-> 6],
   [attached |-> FALSE, w |-> 8, h |-> 6]}

InitEffect ==
  /\ \E params \in {<<>>} \cup {[tint |-> parseColor(t)] : t \in EffectTints} :
       eff = LiquidGlassEffect_init(params)
  /\ actor \in EffectActors
  /\ uniforms = NoUniforms
  /\ frames = <<>>
  /\ queued = FALSE
  /\ calls = 0
  /\ tex = "ramp"
  /\ mode = "minmax"
  /\ PanelIdle

SetNumber ==
  /\ calls < MaxCalls
  /\ \E field \in DOMAIN SetterValues : \E v \in SetterValues[field] :
       Setter(field, v)

SetTintColor == calls < MaxCalls /\ \E hex \in EffectTints : TintSetter(hex)

Paint ==
  /\ Len(frames) < MaxFrames
  /\ \E v_uv \in EffectProbes : vfunc_paint_target(v_uv)

\* the actor is allocated, resized, or the effect is moved off or onto it
Reallocate ==
  /\ \E a \in EffectActors : a # actor /\ actor' = a
  /\ UNCHANGED <<eff, uniforms, frames, queued, calls, glVars, panelVars>>

NextEffect == SetNumber \/ SetTintColor \/ Paint \/ Reallocate

SpecEffect == InitEffect /\ [][NextEffect]_vars

\* ------------------------------------------------------------------------
\* Properties
\* ------------------------------------------------------------------------

\* C1, edge containment: a fragment whose rounded-rectangle signed distance d
\* is greater than 1 is written with the unblurred, undistorted background
\* sample at its own coordinate, whatever the parameters and the background.
C1_EdgeContainment ==
  \A i \in DOMAIN frames :
    frames[i].m.d > Unit => frames[i].m.out = Texture2D(tex, frames[i].m.uv)

\* a fragment outside the shape whose glass colour differs from the background
C1_Outside ==
  \E i \in DOMAIN frames :
    /\ frames[i].m.d > Unit
    /\ frames[i].m.col # frames[i].m.bg
    /\ frames[i].m.out = frames[i].m.bg

\* the taps of all the frames kept, each with the frame it was executed in
TapsPainted ==
  UNION {{[f |-> frames[i], t |-> frames[i].m.taps[j]] :
            j \in DOMAIN frames[i].m.taps} : i \in DOMAIN frames}

\* a tap that returned one direct sample at the clamped coordinate
DirectSample(e) ==
  /\ ~e.t.spiral
  /\ e.t.reads = <<Clamp2(e.t.arg, e.f.m.invRes,
                          [x |-> Unit - e.f.m.invRes.x,
                           y |-> Unit - e.f.m.invRes.y], mode)>>
  /\ e.t.rgb = Texture2D(tex, e.t.reads[1])

\* a tap that read the 12 spiral points and returned their average
SpiralAverage(e) ==
  /\ e.t.spiral
  /\ Len(e.t.reads) = 12
  /\ \A ch \in {"r", "g", "b"} :
       e.t.rgb[ch] = Mul(SumRgb(tex, e.t.reads, 1)[ch], INV_N)

\* C4, blur fast path and tap count: for the blur value b the effect was
\* given, every tap of a frame painted with it returns one direct sample at
\* the clamped coordinate when b < 0.5, and otherwise averages exactly 12
\* spiral samples.
C4_BlurFastPath ==
  \A e \in TapsPainted :
    IF e.f.params.blur < BLUR_MIN THEN DirectSample(e) ELSE SpiralAverage(e)

\* C5, chromatic-aberration bypass: with ca <= 0.001 there is exactly one tap,
\* at uvG, all three channels come from it and no red or blue ray is
\* computed; a frame has three taps only when ca > 0.001, one for each
\* channel at its own offset.
C5_ChromaBypass ==
  \A i \in DOMAIN frames :
    LET f == frames[i]
    IN  /\ f.params.ca <= CA_MIN =>
             /\ Len(f.m.taps) = 1
             /\ f.m.taps[1].arg = f.m.uvG
             /\ f.m.sampled = f.m.taps[1].rgb
             /\ {"rR0", "rB0", "rR", "rB"} \cap DOMAIN f.m = {}
        /\ Len(f.m.taps) # 1 =>
             /\ f.params.ca > CA_MIN
             /\ Len(f.m.taps) = 3
             /\ f.m.taps[1].arg = Along(f.m, f.m.rR)
             /\ f.m.taps[2].arg = f.m.uvG
             /\ f.m.taps[3].arg = Along(f.m, f.m.rB)
             /\ f.m.sampled = [r |-> f.m.taps[1].rgb.r, g |-> f.m.taps[2].rgb.g,
                               b |-> f.m.taps[3].rgb.b]

\* a frame painted with ca = 0.001, the largest value that is bypassed, on a
\* background where a shifted read would show
C5_Bypassed ==
  \E i \in DOMAIN frames :
    /\ frames[i].params.ca = CA_MIN
    /\ tex = "ramp"
    /\ Len(frames[i].m.taps) = 1
    /\ frames[i].m.taps[1].arg = frames[i].m.uvG
    /\ frames[i].m.uvG # frames[i].m.uv

\* the texture reads of all the taps painted, each with invRes of its frame
ReadsIssued ==
  UNION {{[at |-> e.t.reads[k], invRes |-> e.f.m.invRes, spiral |-> e.t.spiral] :
            k \in DOMAIN e.t.reads} : e \in TapsPainted}

\* the read lies in [invRes, 1 - invRes] on each axis
InRange(rd) ==
  /\ rd.invRes.x <= rd.at.x /\ rd.at.x <= Unit - rd.invRes.x
  /\ rd.invRes.y <= rd.at.y /\ rd.at.y <= Unit - rd.invRes.y

\* C6 as stated, sampling stays in range: for every panel size, refraction
\* offset and blur radius, every texture read of tap, the direct one and each
\* spiral one, is at a coordinate in [invRes, 1 - invRes] on each axis.
C6_SamplingInRange == \A rd \in ReadsIssued : InRange(rd)

\* C6 amended: the same for every panel size for which the interval is not
\* empty, invRes <= 1 - invRes on both axes; a panel one pixel wide or high
\* has invRes > 1 and no coordinate can lie in the interval.
C6_SamplingInRangeIfAny ==
  \A rd \in ReadsIssued :
    (2 * rd.invRes.x <= Unit /\ 2 * rd.invRes.y <= Unit) => InRange(rd)

\* a spiral read the clamp moved onto the upper bound of a wider interval
C6_Clamped ==
  \E rd \in ReadsIssued :
    /\ rd.spiral
    /\ 2 * rd.invRes.x < Unit
    /\ rd.at.x = Unit - rd.invRes.x

\* C8, total-internal-reflection fallback: when the green ray refract
\* returned has squared length below 0.001, rG is the incident ray I and uvG
\* is the fragment's own uv; a red or blue ray like that is replaced by rG;
\* no channel is sampled through a ray of squared length below 0.001.
C8_TirFallback ==
  \A i \in DOMAIN frames :
    LET m == frames[i].m
    IN  /\ Dot3(m.rG0, m.rG0) < TIR_MIN => (m.rG = Incident /\ m.uvG = m.uv)
        /\ Dot3(m.rG, m.rG) >= TIR_MIN
        /\ m.ca =>
             /\ Dot3(m.rR0, m.rR0) < TIR_MIN => m.rR = m.rG
             /\ Dot3(m.rB0, m.rB0) < TIR_MIN => m.rB = m.rG
             /\ Dot3(m.rR, m.rR) >= TIR_MIN
             /\ Dot3(m.rB, m.rB) >= TIR_MIN

\* a fragment whose green ray was totally reflected and fell back to I
C8_Reflected ==
  \E i \in DOMAIN frames :
    /\ frames[i].m.rG0 = [x |-> 0, y |-> 0, z |-> 0]
    /\ frames[i].m.rG = Incident
    /\ frames[i].m.uvG = frames[i].m.uv

\* C9, normal at centre: at the panel centre, p = (0,0), for every panel size
\* the height gradient is exactly zero and N is exactly (0,0,1), so the
\* Fresnel term is zero for every fres value.
C9_NormalAtCentre ==
  \A i \in DOMAIN frames :
    LET m == frames[i].m
    IN  m.uv = [x |-> Unit \div 2, y |-> Unit \div 2] =>
          /\ m.p = [x |-> 0, y |-> 0]
          /\ m.hGrad = [x |-> 0, y |-> 0]
          /\ m.N = [x |-> 0, y |-> 0, z |-> Unit]
          /\ m.fres = 0

\* the centre fragment of a frame painted with the largest fres
C9_Centre ==
  \E i \in DOMAIN frames :
    /\ frames[i].m.p = [x |-> 0, y |-> 0]
    /\ frames[i].params.fres = Unit
    /\ frames[i].m.N = [x |-> 0, y |-> 0, z |-> Unit]
    /\ frames[i].m.fres = 0

\* the ten parameter uniforms of the frame are its field values, less epsilon
Snapshot(f) ==
  /\ f.u.u_ior = f.params.ior - EPSILON
  /\ f.u.u_ca = f.params.ca - EPSILON
  /\ f.u.u_dist = f.params.dist - EPSILON
  /\ f.u.u_cr = f.params.cr - EPSILON
  /\ f.u.u_fres = f.params.fres - EPSILON
  /\ f.u.u_blur = f.params.blur - EPSILON
  /\ f.u.u_tint_r = f.params.tint[1] - EPSILON
  /\ f.u.u_tint_g = f.params.tint[2] - EPSILON
  /\ f.u.u_tint_b = f.params.tint[3] - EPSILON
  /\ f.u.u_tint_a = f.params.tint[4] - EPSILON

\* C3, frame-stable parameter snapshot: a setter call changes no uniform; the
\* uniforms change only inside a vfunc_paint_target that paints, and the
\* frame it paints has all ten parameter uniforms taken from the field values
\* of that moment, never a mix of old and new ones.
C3_FrameStableSnapshot ==
  [][/\ calls' # calls => uniforms' = uniforms
     /\ uniforms' # uniforms => (frames' # frames /\ frames'[1].u = uniforms')
     /\ frames' # frames =>
          (frames'[1].params = Params(eff) /\ Snapshot(frames'[1]))]_vars

\* two frames with a setter call between them: the newer one is painted from
\* the new values, the older one was painted from the old ones
C3_NextFrame ==
  /\ Len(frames) = 2
  /\ calls > 0
  /\ frames[1].params # frames[2].params
  /\ frames[1].u # frames[2].u
  /\ Snapshot(frames[1])
  /\ Snapshot(frames[2])

\* r + g + b of the colour written
Brightness(f) == f.m.out.r + f.m.out.g + f.m.out.b

\* two frames of the same fragment, a silhouette point, that differ in the
\* fres parameter only, f having the larger one
LargerFres(f, g) ==
  /\ f.m.d = 0
  /\ f.m.uv = g.m.uv
  /\ f.u.width = g.u.width /\ f.u.height = g.u.height
  /\ [f.params EXCEPT !.fres = 0] = [g.params EXCEPT !.fres = 0]
  /\ f.params.fres > g.params.fres

EnabledWithGlass == life = "enabled" /\ glass._settingSignalIds # <<>>

\* C2, effect-enabled flag: after enable(), in every state the settings
\* changes and monitors-changed events lead to, when 'apply-to-panel' is false
\* no glass is installed: _effect, _bgWidget, _bgGroup and _bgManager are
\* null, no background group is a child of the panel's parent and the style
\* class is not on the panel.
C2_NothingInstalledWhenOff ==
  (life = "enabled" /\ ~settings["apply-to-panel"]) =>
    /\ glass._effect = 0
    /\ glass._bgWidget = 0
    /\ glass._bgGroup = 0
    /\ glass._bgManager = 0
    /\ shell.children = {}
    /\ ~shell.styled

\* C10, rebuild on every monitor change: between enable() with
\* 'apply-to-panel' true and disable(), every monitors-changed emission is
\* handled by _rebuild: a handler ran, and the glass is set up for the primary
\* monitor there is now, or is absent if the setting is false or there is none.
C10_RebuildOnEveryMonitorChange ==
  (EnabledWithGlass /\ lastEvent.signal = "monitors-changed") =>
    /\ lastEvent.handlers > 0
    /\ IF settings["apply-to-panel"] /\ shell.monitor # 0
         THEN <<glass._bgManager, shell.monitor>> \in shell.managers
         ELSE glass._bgManager = 0 /\ glass._bgGroup = 0

\* the glass is installed: _effect is an effect on _bgWidget and the
\* background group is a child of the panel's parent
Installed(g, s) ==
  /\ g._effect # 0
  /\ g._bgWidget = g._effect
  /\ g._bgGroup # 0
  /\ g._bgGroup \in s.children

\* C11, live enabling: between enable() and disable(), whatever the value of
\* 'apply-to-panel' was when enable() ran, a change of 'apply-to-panel' from
\* false to true with a primary monitor present leaves the glass installed.
C11_LiveEnabling ==
  [][(/\ life = "enabled"
      /\ life' = "enabled"
      /\ ~settings["apply-to-panel"]
      /\ settings'["apply-to-panel"]
      /\ shell'.monitor # 0) => Installed(glass', shell')]_vars

\* the parameter uniforms are those of the fields now
ParamsUploaded == uniforms = UploadParams(uniforms, eff)

\* the size uniforms are those of the actor now
SizeUploaded == uniforms = UploadSize(uniforms, actor.w, actor.h)

\* the uniform cache is coherent: a clean effect has its fields uploaded, and
\* an effect whose _lastW, _lastH are its actor's size has that size uploaded
CacheCoherent ==
  /\ ~eff._dirty => ParamsUploaded
  /\ (actor.attached /\ eff._lastW = actor.w /\ eff._lastH = actor.h) =>
       SizeUploaded

\* a paint that returns early (no actor, or no size) uploads nothing and
\* leaves the fields alone
EarlyPaintInert ==
  \A v_uv \in EffectProbes :
    (/\ ~actor.attached \/ actor.w <= 0 \/ actor.h <= 0
     /\ vfunc_paint_target(v_uv)) => UNCHANGED <<uniforms, eff>>

\* a numeric setter called with the value stored changes neither _dirty nor
\* the repaint queue
SameNumberInert ==
  \A field \in DOMAIN SetterValues : \A v \in SetterValues[field] :
    (v = eff[field] /\ Setter(field, v)) =>
      (eff'._dirty = eff._dirty /\ queued' = queued)

\* the same of the tintColor setter called with the colour stored
SameTintInert ==
  \A hex \in EffectTints :
    (parseColor(hex) = eff._tint /\ TintSetter(hex)) =>
      (eff'._dirty = eff._dirty /\ queued' = queued)

\* C12, dirty-flag cache coherence: over any sequence of setter calls and
\* paints, whenever _dirty is false the parameter uniforms equal the fields
\* minus epsilon, whenever _lastW, _lastH equal the actor's size the size
\* uniforms are those of that size, a paint that returns early uploads nothing
\* and leaves _dirty, _lastW, _lastH unchanged, and a setter called with the
\* value already stored neither sets _dirty nor queues a repaint.
C12_CacheCoherence ==
  [][/\ CacheCoherent
     /\ CacheCoherent'
     /\ EarlyPaintInert
     /\ SameNumberInert
     /\ SameTintInert]_vars

\* the keys whose callbacks assign to this._effect
EffectKeys == SettingKeys \ {"apply-to-panel"}

\* C13, no handler runs against a torn-down effect: between enable() and
\* disable(), wherever a callback is connected to 'changed' of ior,
\* chromatic-aberration, distortion, corner-radius, fresnel, blur or
\* tint-color, _effect is not null, and no emission of one of them has thrown
\* on this._effect.
C13_HandlersFindEffect ==
  life = "enabled" =>
    /\ \A key \in EffectKeys :
         shell.settingHandlers[key] > 0 => glass._effect # 0
    /\ (lastEvent.signal = "changed" /\ lastEvent.key \in EffectKeys) =>
         ~lastEvent.threw

\* C14, at most one glass instance: after any sequence of enable(), settings
\* emissions (a repeated 'changed::apply-to-panel' with the value true among
\* them), monitors-changed events and disable(), the panel's parent holds at
\* most one background group of PanelGlass and at most one of its
\* BackgroundManagers is alive, and each is the one _bgGroup, _bgManager refer
\* to: _setup has overwritten no reference to an undestroyed object.
C14_AtMostOneGlass ==
  /\ Cardinality(shell.children) <= 1
  /\ Cardinality(shell.managers) <= 1
  /\ shell.children \subseteq {glass._bgGroup}
  /\ {m[1] : m \in shell.managers} \subseteq {glass._bgManager}

====
